---- MODULE Spec2Model ----
(***************************************************************************)
(* Tick orchestrator (CronController.handleTick), run lifecycle manager    *)
(* (TaskRunService over SqlTaskRunRepository) and digest gate              *)
(* (SummaryService over SqlSummaryRepository).                             *)
(*                                                                         *)
(* Every async call is a suspension point: a handler is split into one     *)
(* action per store / gateway / handler call, and the actions of different *)
(* invocations interleave freely.  Every external call either succeeds or  *)
(* raises; a call that raises has no effect on the store.                  *)
(***************************************************************************)
EXTENDS Integers, Sequences, FiniteSets, TLC

\* ------------------------------------------------------------------------
\* Bounds of the model
\* ------------------------------------------------------------------------
MaxTicks == 2
MaxClockSteps == 2
MaxSchedules == 1
MaxFaults == 1
MaxDays == 2
MaxRows == 2

\* ------------------------------------------------------------------------
\* Program constants
\* ------------------------------------------------------------------------
MsPerSecond == 1000
MsPerMinute == 60000
MsPerHour == 3600000
MsPerDay == 86400000
pollLookbackMinutes == 15
pollLookaheadMinutes == 5
summaryHourUtc == 23
DefaultEndMinutes == 30

\* ------------------------------------------------------------------------
\* Values
\* ------------------------------------------------------------------------
\* undefined / SQL NULL for text values; strings are sequences of characters
Null == <<"<null>">>
\* an absent Date
NoDate == -1
\* an absent TaskRunStatus
NoStatus == "undefined"
\* an absent TaskRunRecord or row
NoRun == [id |-> 0]

Procs == {1, 2}

\* first instant of the model clock: day 1, 22:40:00.000 UTC
T0 == MsPerDay + 22 * MsPerHour + 40 * MsPerMinute
\* the clock advances in steps of 16 min: an event without an end leaves
\* the polling window after one step
ClockStep == 16 * MsPerMinute

WhiteSpace == {" ", "\t", "\n"}

RECURSIVE TrimStart(_)
TrimStart(s) ==
    IF s # <<>> /\ Head(s) \in WhiteSpace THEN TrimStart(Tail(s)) ELSE s

RECURSIVE TrimEnd(_)
TrimEnd(s) ==
    IF s # <<>> /\ s[Len(s)] \in WhiteSpace
    THEN TrimEnd(SubSeq(s, 1, Len(s) - 1))
    ELSE s

\* String.prototype.trim
Trim(s) == TrimEnd(TrimStart(s))

\* a ?? b
Coalesce(a, b) == IF a = Null THEN b ELSE a

\* CalendarEvent records held by the Event Gateway at the start
InitialEvents ==
    { [id |-> 1, title |-> <<"T", "1">>, description |-> <<" ", "d", " ">>,
       start |-> T0 - MsPerMinute, end |-> NoDate,
       status |-> "confirmed"],
      [id |-> 2, title |-> <<"T", "2">>, description |-> Null,
       start |-> T0 + 2 * MsPerMinute + 500, end |-> NoDate,
       status |-> "tentative"],
      [id |-> 3, title |-> <<"T", "3">>, description |-> Null,
       start |-> T0 - 2 * MsPerMinute, end |-> NoDate,
       status |-> "cancelled"] }

\* a second event due at the first instant of the clock, with a blank
\* description
ExtraEvent ==
    [id |-> 4, title |-> <<"T", "4">>, description |-> <<" ">>,
     start |-> T0, end |-> NoDate, status |-> "confirmed"]

\* the description of the Schedule given to createCalendarEventFromSchedule
ScheduleDescription == <<"s", " ">>
\* ids the Event Gateway gives to created events: FirstCreatedId + n
FirstCreatedId == 10

VARIABLES
    clock,           \* Date.now()
    calendar,        \* events held by the Event Gateway
    taskRuns,        \* rows of table task_runs, in insertion order
    dailySummaries,  \* rows of table daily_summaries
    emails,          \* messages delivered by the Notification Gateway
    tick,            \* the handleTick invocation of each caller
    sched,           \* the createCalendarEventFromSchedule invocation
    ticksStarted,    \* number of handleTick invocations so far
    handlerCalls,    \* Task Handler invocations so far, per event occurrence
    faults,          \* number of external calls that have raised
    responses,       \* the CronResults returned by handleTick, in order
    day,             \* a getDayWindow call of a SummaryService
    store            \* a call of a TaskRunService under study

vars == <<clock, calendar, taskRuns, dailySummaries, emails, tick, sched,
          ticksStarted, handlerCalls, faults, responses, day, store>>

\* ------------------------------------------------------------------------
\* SqlTaskRunRepository
\* ------------------------------------------------------------------------
toEpochSeconds(ms) == ms \div MsPerSecond

\* TaskRunRecord read from a row
mapRow(row) ==
    [id |-> row.id,
     calendarEventId |-> row.calendar_event_id,
     scheduledStart |-> row.scheduled_start * MsPerSecond,
     status |-> row.status,
     summary |-> row.summary,
     error |-> row.error]

\* the rows matched by SELECT ... WHERE calendar_event_id = ? AND scheduled_start = ?
RowsByEventAndStart(rows, calendarEventId, scheduledStart) ==
    { i \in 1..Len(rows) :
        /\ rows[i].calendar_event_id = calendarEventId
        /\ rows[i].scheduled_start = toEpochSeconds(scheduledStart) }

\* findByEventAndStart comparing the stored seconds with the milliseconds of
\* the Date
findByEventAndStart_Millis(rows, calendarEventId, scheduledStart) ==
    \E i \in 1..Len(rows) :
        /\ rows[i].calendar_event_id = calendarEventId
        /\ rows[i].scheduled_start = scheduledStart

\* findByEventAndStart: is a record returned
findByEventAndStart(rows, calendarEventId, scheduledStart) ==
    RowsByEventAndStart(rows, calendarEventId, scheduledStart) # {}

\* the row INSERTed by create; the id is fresh (crypto.randomUUID)
NewRow(rows, input) ==
    [id |-> Len(rows) + 1,
     calendar_event_id |-> input.calendarEventId,
     scheduled_start |-> toEpochSeconds(input.scheduledStart),
     status |-> IF input.status = NoStatus THEN "pending" ELSE input.status,
     summary |-> input.summary,
     error |-> Null]

\* create: the table has no uniqueness constraint on
\* (calendar_event_id, scheduled_start), so the INSERT always adds a row
create(rows, input) == Append(rows, NewRow(rows, input))

\* updateStatus writing the optional fields but not the status
updateStatus_KeepsStatus(rows, input) ==
    [i \in 1..Len(rows) |->
        IF rows[i].id = input.id
        THEN [rows[i] EXCEPT !.summary = input.summary,
                             !.error = input.error]
        ELSE rows[i]]

\* the UPDATE without its WHERE clause
updateStatus_AllRows(rows, input) ==
    [i \in 1..Len(rows) |->
        [rows[i] EXCEPT !.status = input.status,
                        !.summary = input.summary,
                        !.error = input.error]]

\* an UPDATE that inserts the row when no row has the id
updateStatus_Upsert(rows, input) ==
    IF \E i \in 1..Len(rows) : rows[i].id = input.id
    THEN [i \in 1..Len(rows) |->
            IF rows[i].id = input.id
            THEN [rows[i] EXCEPT !.status = input.status,
                                 !.summary = input.summary,
                                 !.error = input.error]
            ELSE rows[i]]
    ELSE Append(rows, [id |-> input.id,
                       calendar_event_id |-> 0,
                       scheduled_start |-> 0,
                       status |-> input.status,
                       summary |-> input.summary,
                       error |-> input.error])

\* an UPDATE keeping the stored summary and error when none is given
updateStatus_KeepsOptionals(rows, input) ==
    [i \in 1..Len(rows) |->
        IF rows[i].id = input.id
        THEN [rows[i] EXCEPT !.status = input.status,
                             !.summary = Coalesce(input.summary, @),
                             !.error = Coalesce(input.error, @)]
        ELSE rows[i]]

\* updateStatus: UPDATE ... WHERE id = ?
updateStatus(rows, input) ==
    [i \in 1..Len(rows) |->
        IF rows[i].id = input.id
        THEN [rows[i] EXCEPT !.status = input.status,
                             !.summary = input.summary,
                             !.error = input.error]
        ELSE rows[i]]

\* findById: the record of the row with this id (the PRIMARY KEY), or absent
findById(rows, id) ==
    IF \E i \in 1..Len(rows) : rows[i].id = id
    THEN mapRow(rows[CHOOSE i \in 1..Len(rows) : rows[i].id = id])
    ELSE NoRun

\* the rows matched by
\* SELECT ... WHERE scheduled_start >= ? AND scheduled_start <= ?
RowsInRange(rows, start, end) ==
    { i \in 1..Len(rows) :
        /\ rows[i].scheduled_start >= toEpochSeconds(start)
        /\ rows[i].scheduled_start <= toEpochSeconds(end) }

\* the orders of the selected rows that ORDER BY scheduled_start ASC permits:
\* rows of equal scheduled_start come in any order
RowOrders(rows, selected) ==
    { f \in [1..Cardinality(selected) -> selected] :
        /\ \A a, b \in DOMAIN f : a # b => f[a] # f[b]
        /\ \A a, b \in DOMAIN f :
              a < b => rows[f[a]].scheduled_start <= rows[f[b]].scheduled_start }

\* listByDateRange: the results the query can return
listByDateRange(rows, start, end) ==
    { [k \in DOMAIN f |-> mapRow(rows[f[k]])] :
        f \in RowOrders(rows, RowsInRange(rows, start, end)) }

\* ------------------------------------------------------------------------
\* TaskRunService
\* ------------------------------------------------------------------------
\* the input asking for a run that is created as running
CreateInput_Running(event) ==
    [calendarEventId |-> event.id,
     scheduledStart |-> event.start,
     summary |-> IF event.description = Null THEN Null
                 ELSE Trim(event.description),
     status |-> "running"]

\* the input asking for a run that is created as skipped
CreateInput_Skipped(event) ==
    [calendarEventId |-> event.id,
     scheduledStart |-> event.start,
     summary |-> IF event.description = Null THEN Null
                 ELSE Trim(event.description),
     status |-> "skipped"]

\* the CreateTaskRunInput built by createRunIfMissing
CreateInput(event) ==
    [calendarEventId |-> event.id,
     scheduledStart |-> event.start,
     summary |-> IF event.description = Null THEN Null
                 ELSE Trim(event.description),
     status |-> "pending"]

\* ------------------------------------------------------------------------
\* Event Gateway and CalendarService
\* ------------------------------------------------------------------------
\* listEventsBetween: events whose time span overlaps [start, end)
listEventsBetween(events, start, end) ==
    { e \in events :
        /\ e.start < end
        /\ IF e.end = NoDate THEN e.start >= start ELSE e.end > start }

\* the fetch keeping the cancelled events
getActionableEvents_All(events, start, end) ==
    listEventsBetween(events, start, end)

\* getActionableEvents
getActionableEvents(events, start, end) ==
    { e \in listEventsBetween(events, start, end) : e.status # "cancelled" }

\* ------------------------------------------------------------------------
\* SummaryService: day window
\* ------------------------------------------------------------------------
timezone == "UTC"

\* the zones of the tests of getStartOfDay
Zones == {"UTC", "America/New_York", "Europe/London"}

\* Instants are counted from 00:00 UTC two days before the day on which the
\* zone changes its offset: from 2024-03-08 for America/New_York, which goes
\* from UTC-5 to UTC-4 on 2024-03-10 at 07:00 UTC, and from 2024-10-25 for
\* Europe/London, which goes from UTC+1 to UTC+0 on 2024-10-27 at 01:00 UTC.
SpringForward == 2 * MsPerDay + 7 * MsPerHour

FallBack == 2 * MsPerDay + 1 * MsPerHour

\* offset of local time from UTC at instant ms (Intl.DateTimeFormat timeZone)
UtcOffsetMs(tz, ms) ==
    CASE tz = "UTC" -> 0
      [] tz = "America/New_York" ->
            IF ms < SpringForward THEN -5 * MsPerHour ELSE -4 * MsPerHour
      [] tz = "Europe/London" ->
            IF ms < FallBack THEN 1 * MsPerHour ELSE 0

\* getStartOfDay: Date.UTC(y, m, d) of the local calendar date of the instant
getStartOfDay(tz, date) ==
    ((date + UtcOffsetMs(tz, date)) \div MsPerDay) * MsPerDay

\* the hour of the instant on the wall clock of the zone, 0..23
LocalHour(tz, date) ==
    ((date + UtcOffsetMs(tz, date)) % MsPerDay) \div MsPerHour

\* getLocalHour: the number of the hour part that the en-US formatter with
\* hour12: false produces. The runtime resolves hour12: false to the hour
\* cycle h23 or, for a locale whose default cycle is h12 under the older
\* ECMA-402 rule, to h24: the hour after midnight is formatted "00" or "24"
getLocalHour(tz, date) ==
    IF LocalHour(tz, date) = 0 THEN {0, 24} ELSE {LocalHour(tz, date)}

\* getDateKey: the date part of toISOString, as the number of the UTC day
getDateKey(date) == date \div MsPerDay

\* the window keyed by the UTC date of the instant itself
getDayWindow_UtcKey(tz, date) ==
    [start |-> getStartOfDay(tz, date),
     end |-> getStartOfDay(tz, date) + 24 * 60 * 60 * 1000 - 1,
     dateKey |-> getDateKey(date)]

\* getDayWindow
getDayWindow(tz, date) ==
    [start |-> getStartOfDay(tz, date),
     end |-> getStartOfDay(tz, date) + 24 * 60 * 60 * 1000 - 1,
     dateKey |-> getDateKey(getStartOfDay(tz, date))]

\* a line of the digest body: its format and the values written into it
Line(kind, text, run) ==
    [kind |-> kind, text |-> text,
     label |-> IF run = NoRun THEN <<>>
               ELSE Coalesce(run.summary, <<"event", run.calendarEventId>>),
     status |-> IF kind = "pending" THEN run.status ELSE NoStatus,
     at |-> IF kind \in {"completed", "pending"} THEN run.scheduledStart
            ELSE NoDate,
     error |-> IF kind = "failed"
               THEN Coalesce(run.error, <<"Unknown error">>)
               ELSE <<>>]

\* runs.filter(run => run.status is one of statuses)
RECURSIVE Filter(_, _)
Filter(runs, statuses) ==
    IF runs = <<>> THEN <<>>
    ELSE IF Head(runs).status \in statuses
         THEN <<Head(runs)>> \o Filter(Tail(runs), statuses)
         ELSE Filter(Tail(runs), statuses)

\* the lines pushed for one group of runs: the placeholder, or a line per run
SectionLines(kind, placeholder, runs) ==
    IF Len(runs) = 0
    THEN <<Line("placeholder", placeholder, NoRun)>>
    ELSE [k \in 1..Len(runs) |-> Line(kind, "-", runs[k])]

\* the statuses listed under Pending / running
PendingStatuses_NoSkipped == {"pending", "running"}

PendingStatuses == {"pending", "running", "skipped"}

\* buildSummaryBody: the lines joined into the body
buildSummaryBody(dateKey, runs) ==
    <<[Line("title", "Summary for", NoRun) EXCEPT !.at = dateKey],
      Line("blank", "", NoRun),
      Line("heading", "Completed tasks:", NoRun)>>
    \o SectionLines("completed", "- None completed yet.",
                    Filter(runs, {"completed"}))
    \o <<Line("blank", "", NoRun),
         Line("heading", "Pending / running:", NoRun)>>
    \o SectionLines("pending", "- No pending tasks.",
                    Filter(runs, PendingStatuses))
    \o <<Line("blank", "", NoRun),
         Line("heading", "Failures:", NoRun)>>
    \o SectionLines("failed", "- No failures recorded.",
                    Filter(runs, {"failed"}))

\* ------------------------------------------------------------------------
\* SqlSummaryRepository
\* ------------------------------------------------------------------------
\* the lookup never finding the row
getForDate_Never(rows, dateKey) == FALSE

\* getForDate: is a row returned
getForDate(rows, dateKey) == \E r \in rows : r.date_key = dateKey

\* the insert keeping the row already stored for the key
markSent_Insert(rows, dateKey, messageId, sentAt) ==
    rows \cup { [date_key |-> dateKey,
                 sent_at |-> sentAt \div MsPerSecond,
                 message_id |-> messageId] }

\* the insert writing NULL for the message id
markSent_NoMessageId(rows, dateKey, messageId, sentAt) ==
    { r \in rows : r.date_key # dateKey }
        \cup { [date_key |-> dateKey,
                sent_at |-> sentAt \div MsPerSecond,
                message_id |-> 0] }

\* markSent: INSERT OR REPLACE on the primary key date_key
markSent(rows, dateKey, messageId, sentAt) ==
    { r \in rows : r.date_key # dateKey }
        \cup { [date_key |-> dateKey,
                sent_at |-> sentAt \div MsPerSecond,
                message_id |-> messageId] }

\* ------------------------------------------------------------------------
\* State of the invocations
\* ------------------------------------------------------------------------
NoResult == [checkedEvents |-> -1]

\* the per-event task of handleTick, at its first await
NewTask ==
    [pc |-> "lookup", run |-> NoRun,
     runCreated |-> FALSE, executed |-> FALSE, message |-> Null,
     updates |-> <<>>, outcome |-> "none",
     created |-> FALSE, failed |-> FALSE]

IdleTick ==
    [pc |-> "idle", now |-> 0, listed |-> {}, events |-> {}, due |-> {},
     tasks |-> <<>>, summaryCalls |-> 0, messageId |-> 0,
     result |-> NoResult]

IdleSched == [pc |-> "idle", event |-> NoRun, count |-> 0]

NoWindow == [start |-> NoDate, end |-> NoDate, dateKey |-> NoDate]

\* no getDayWindow call under study
IdleDay == [pc |-> "idle", tz |-> timezone, date |-> 0, window |-> NoWindow]

\* no TaskRunService call under study
IdleStore ==
    [pc |-> "idle", op |-> "none", id |-> 0, status |-> NoStatus,
     start |-> NoDate, end |-> NoDate, before |-> <<>>,
     returned |-> NoRun, runs |-> <<>>, body |-> <<>>]

Init ==
    /\ clock = T0
    /\ calendar = InitialEvents
    /\ taskRuns = <<>>
    /\ dailySummaries = {}
    /\ emails = <<>>
    /\ tick = [p \in Procs |-> IdleTick]
    /\ sched = IdleSched
    /\ ticksStarted = 0
    /\ handlerCalls = <<>>
    /\ faults = 0
    /\ responses = <<>>
    /\ day = IdleDay
    /\ store = IdleStore

\* an external call returns (TRUE) or raises (FALSE)
CallOutcomes == IF faults < MaxFaults THEN BOOLEAN ELSE {TRUE}

Charge(ok) == faults' = IF ok THEN faults ELSE faults + 1

\* the event of a per-event task
EventOf(p, id) == CHOOSE e \in tick[p].due : e.id = id

DueIds(p) == { e.id : e \in tick[p].due }

\* ------------------------------------------------------------------------
\* CronController.handleTick
\* ------------------------------------------------------------------------
\* a handleTick invocation is in progress in slot p
Active(p) == tick[p].pc \notin {"idle", "returned", "raised"}

\* handleTick(new Date()) up to the await of getActionableEvents; the
\* invocation takes the first free slot
StartTick(p) ==
    /\ ~Active(p)
    /\ \A q \in Procs : q < p => Active(q)
    /\ ticksStarted < MaxTicks
    /\ ticksStarted' = ticksStarted + 1
    /\ tick' = [tick EXCEPT ![p] = [IdleTick EXCEPT !.pc = "fetching",
                                                    !.now = clock]]
    /\ UNCHANGED <<clock, calendar, taskRuns, dailySummaries, emails, sched,
                   handlerCalls, faults,
                   responses, day, store>>

\* the fetch error swallowed: the tick goes on to the digest with no events
FetchRaised_Swallowed(t) ==
    [t EXCEPT !.pc = "summaryCheck", !.summaryCalls = @ + 1]

\* an error of getActionableEvents is not caught: handleTick raises
FetchRaised(t) == [t EXCEPT !.pc = "raised"]

\* the Event Gateway fetch raises
FetchFail(p) ==
    /\ tick[p].pc = "fetching"
    /\ FALSE \in CallOutcomes
    /\ Charge(FALSE)
    /\ tick' = [tick EXCEPT ![p] = FetchRaised(tick[p])]
    /\ UNCHANGED <<clock, calendar, taskRuns, dailySummaries, emails, sched,
                   ticksStarted, handlerCalls,
                   responses, day, store>>

\* the due filter letting every fetched event through
DueEvents_All(events, now) == events

\* the events with start <= now
DueEvents(events, now) == { e \in events : e.start <= now }

\* the fetch returns; the due events are filtered and one task is started
\* per due event (each runs up to its first await)
FetchOk(p) ==
    /\ tick[p].pc = "fetching"
    /\ LET now == tick[p].now
           windowStart == now - pollLookbackMinutes * 60 * 1000
           windowEnd == now + pollLookaheadMinutes * 60 * 1000
           events == getActionableEvents(calendar, windowStart, windowEnd)
           due == DueEvents(events, now)
       IN tick' = [tick EXCEPT
                ![p].pc = "processing",
                ![p].listed = listEventsBetween(calendar, windowStart,
                                                windowEnd),
                ![p].events = events,
                ![p].due = due,
                ![p].tasks = [id \in { e.id : e \in due } |-> NewTask]]
    /\ UNCHANGED <<clock, calendar, taskRuns, dailySummaries, emails, sched,
                   ticksStarted, handlerCalls, faults,
                   responses, day, store>>

\* the outer catch rethrowing: the task rejects and Promise.all with it
TaskCaught_Rethrows(task, where) ==
    [task EXCEPT !.pc = "rejected", !.outcome = where]

\* the outer catch reporting every caught error as an execution failure
TaskCaught_MarksFailed(task, where) ==
    [task EXCEPT !.pc = "done", !.created = task.runCreated,
                 !.failed = TRUE, !.outcome = where]

\* the outer catch reporting every caught error as a created run
TaskCaught_AlwaysCreated(task, where) ==
    [task EXCEPT !.pc = "done", !.created = TRUE,
                 !.failed = FALSE, !.outcome = where]

\* the outer catch reporting no caught error as a created run
TaskCaught_NeverCreated(task, where) ==
    [task EXCEPT !.pc = "done", !.created = FALSE,
                 !.failed = FALSE, !.outcome = where]

\* the outer catch of a per-event task: log and continue
TaskCaught(task, where) ==
    [task EXCEPT !.pc = "done", !.created = task.runCreated,
                 !.failed = FALSE, !.outcome = where]

\* a skipped event reported as {created: true, failed: false}
TaskSkipped_Counted(task) ==
    [task EXCEPT !.pc = "done", !.created = TRUE, !.failed = FALSE,
                 !.outcome = "duplicate"]

\* createRunIfMissing returns absent: the task returns
\* {created: false, failed: false}
TaskSkipped(task) ==
    [task EXCEPT !.pc = "done", !.created = FALSE, !.failed = FALSE,
                 !.outcome = "duplicate"]

\* createRunIfMissing: the findByEventAndStart lookup; when a record is found
\* the call returns absent and the task ends
TaskLookup(p, id) ==
    /\ tick[p].pc = "processing"
    /\ id \in DueIds(p)
    /\ tick[p].tasks[id].pc = "lookup"
    /\ \E ok \in CallOutcomes : Charge(ok) /\
         LET task == tick[p].tasks[id]
             event == EventOf(p, id)
         IN tick' = [tick EXCEPT ![p].tasks[id] =
                IF ~ok THEN TaskCaught(task, "lookupRaised")
                ELSE IF findByEventAndStart(taskRuns, event.id, event.start)
                THEN TaskSkipped(task)
                ELSE [task EXCEPT !.pc = "insert"]]
    /\ UNCHANGED <<clock, calendar, taskRuns, dailySummaries, emails, sched,
                   ticksStarted, handlerCalls,
                   responses, day, store>>

\* createRunIfMissing after a lookup that found nothing: the repository
\* create
TaskCreate(p, id) ==
    /\ tick[p].pc = "processing"
    /\ id \in DueIds(p)
    /\ tick[p].tasks[id].pc = "insert"
    /\ LET task == tick[p].tasks[id]
           event == EventOf(p, id)
       IN \E ok \in CallOutcomes : Charge(ok) /\
            IF ok
            THEN /\ taskRuns' = create(taskRuns, CreateInput(event))
                 /\ tick' = [tick EXCEPT ![p].tasks[id] =
                       [task EXCEPT
                          !.pc = "markRunning",
                          !.runCreated = TRUE,
                          !.run = mapRow(NewRow(taskRuns,
                                                CreateInput(event)))]]
            ELSE /\ tick' = [tick EXCEPT ![p].tasks[id] =
                       TaskCaught(task, "createRaised")]
                 /\ UNCHANGED taskRuns
    /\ UNCHANGED <<clock, calendar, dailySummaries, emails, sched,
                   ticksStarted, handlerCalls,
                   responses, day, store>>

\* the input losing the error message
UpdateInput_DropsError(id, status, summary, error) ==
    [id |-> id, status |-> status, summary |-> summary, error |-> Null]

\* the UpdateTaskRunInput built by TaskRunService.updateStatus
UpdateInput(id, status, summary, error) ==
    [id |-> id, status |-> status, summary |-> summary, error |-> error]

\* updateStatus(run.id, "running") whose failure is swallowed: the task goes
\* on to the Task Handler
TaskMarkRunning_Swallowed(p, id) ==
    /\ tick[p].pc = "processing"
    /\ id \in DueIds(p)
    /\ tick[p].tasks[id].pc = "markRunning"
    /\ LET task == tick[p].tasks[id]
           issued == [task EXCEPT !.updates = Append(@, "running")]
       IN \E ok \in CallOutcomes : Charge(ok) /\
            /\ taskRuns' = IF ok
                           THEN updateStatus(taskRuns,
                                  UpdateInput(task.run.id, "running",
                                              Null, Null))
                           ELSE taskRuns
            /\ tick' = [tick EXCEPT ![p].tasks[id] =
                        [issued EXCEPT !.pc = "execute"]]
    /\ UNCHANGED <<clock, calendar, dailySummaries, emails, sched,
                   ticksStarted, handlerCalls,
                   responses, day, store>>

\* updateStatus(run.id, "running")
TaskMarkRunning(p, id) ==
    /\ tick[p].pc = "processing"
    /\ id \in DueIds(p)
    /\ tick[p].tasks[id].pc = "markRunning"
    /\ LET task == tick[p].tasks[id]
           issued == [task EXCEPT !.updates = Append(@, "running")]
       IN \E ok \in CallOutcomes : Charge(ok) /\
            IF ok
            THEN /\ taskRuns' = updateStatus(taskRuns,
                        UpdateInput(task.run.id, "running", Null, Null))
                 /\ tick' = [tick EXCEPT ![p].tasks[id] =
                        [issued EXCEPT !.pc = "execute"]]
            ELSE /\ tick' = [tick EXCEPT ![p].tasks[id] =
                        TaskCaught(issued, "runningRaised")]
                 /\ UNCHANGED taskRuns
    /\ UNCHANGED <<clock, calendar, dailySummaries, emails, sched,
                   ticksStarted, handlerCalls,
                   responses, day, store>>

ErrorMessage == <<"B", "o", "o", "m">>
UnknownExecutionFailure == <<"U", "n", "k", "n", "o", "w", "n">>

\* number of Task Handler invocations for an event occurrence
Invocations(calls, key) == IF key \in DOMAIN calls THEN calls[key] ELSE 0

Invoked(calls, key) ==
    [k \in DOMAIN calls \cup {key} |->
        IF k = key THEN Invocations(calls, key) + 1 ELSE calls[k]]

\* taskExecutor.execute(event, run): returns or throws
TaskExecute(p, id) ==
    /\ tick[p].pc = "processing"
    /\ id \in DueIds(p)
    /\ tick[p].tasks[id].pc = "execute"
    /\ LET task == tick[p].tasks[id]
           event == EventOf(p, id)
       IN /\ handlerCalls' = Invoked(handlerCalls,
                                       <<event.id, event.start>>)
          /\ \E returns \in BOOLEAN :
               tick' = [tick EXCEPT ![p].tasks[id] =
                  [task EXCEPT
                     !.executed = TRUE,
                     !.pc = IF returns THEN "markCompleted"
                            ELSE "markFailed"]]
    /\ UNCHANGED <<clock, calendar, taskRuns, dailySummaries, emails, sched,
                   ticksStarted, faults,
                   responses, day, store>>

\* the message taken from what the handler threw
CaughtMessage(thrown) ==
    IF thrown = "Error" THEN ErrorMessage ELSE UnknownExecutionFailure

\* the handler raised (an Error, or something that is not an Error):
\* updateStatus(run.id, "failed", {summary, error}), then the task returns
\* {created: true, failed: true}
TaskMarkFailed(p, id) ==
    /\ tick[p].pc = "processing"
    /\ id \in DueIds(p)
    /\ tick[p].tasks[id].pc = "markFailed"
    /\ LET task == tick[p].tasks[id]
           event == EventOf(p, id)
       IN \E ok \in CallOutcomes, thrown \in {"Error", "other"} :
          LET issued == [task EXCEPT !.updates = Append(@, "failed"),
                                     !.message = CaughtMessage(thrown)]
          IN Charge(ok) /\
            IF ok
            THEN /\ taskRuns' = updateStatus(taskRuns,
                        UpdateInput(task.run.id, "failed",
                                    Coalesce(task.run.summary, event.title),
                                    issued.message))
                 /\ tick' = [tick EXCEPT ![p].tasks[id] =
                        [issued EXCEPT !.pc = "done", !.created = TRUE,
                                       !.failed = TRUE,
                                       !.outcome = "failed"]]
            ELSE /\ tick' = [tick EXCEPT ![p].tasks[id] =
                        TaskCaught(issued, "failedRaised")]
                 /\ UNCHANGED taskRuns
    /\ UNCHANGED <<clock, calendar, dailySummaries, emails, sched,
                   ticksStarted, handlerCalls,
                   responses, day, store>>

\* the handler returned: updateStatus(run.id, "completed", {summary}),
\* then the task returns {created: true, failed: false}
TaskMarkCompleted(p, id) ==
    /\ tick[p].pc = "processing"
    /\ id \in DueIds(p)
    /\ tick[p].tasks[id].pc = "markCompleted"
    /\ LET task == tick[p].tasks[id]
           event == EventOf(p, id)
           issued == [task EXCEPT !.updates = Append(@, "completed")]
       IN \E ok \in CallOutcomes : Charge(ok) /\
            IF ok
            THEN /\ taskRuns' = updateStatus(taskRuns,
                        UpdateInput(task.run.id, "completed",
                                    Coalesce(task.run.summary, event.title),
                                    Null))
                 /\ tick' = [tick EXCEPT ![p].tasks[id] =
                        [issued EXCEPT !.pc = "done", !.created = TRUE,
                                       !.failed = FALSE,
                                       !.outcome = "completed"]]
            ELSE /\ tick' = [tick EXCEPT ![p].tasks[id] =
                        TaskCaught(issued, "completedRaised")]
                 /\ UNCHANGED taskRuns
    /\ UNCHANGED <<clock, calendar, dailySummaries, emails, sched,
                   ticksStarted, handlerCalls,
                   responses, day, store>>

\* the CronResult returned by handleTick
TickResult(t, summary) ==
    [checkedEvents |-> Cardinality(t.events),
     dueEvents |-> Cardinality(t.due),
     createdRuns |-> Cardinality({ id \in DOMAIN t.tasks :
                                     t.tasks[id].created }),
     failedRuns |-> Cardinality({ id \in DOMAIN t.tasks :
                                    t.tasks[id].failed }),
     summary |-> summary]

\* handleTick returns
Returned(t, summary) ==
    [t EXCEPT !.pc = "returned", !.result = TickResult(t, summary)]

\* the join not waiting for the per-event tasks
AllSettled_Eager(t) == TRUE

\* Promise.all over the per-event tasks is settled: fulfilled when every task
\* has returned, rejected as soon as one task has rejected
AllSettled(t) ==
    \/ \A id \in DOMAIN t.tasks : t.tasks[id].pc = "done"
    \/ \E id \in DOMAIN t.tasks : t.tasks[id].pc = "rejected"

\* Promise.all resolves; the counts are taken and maybeSendSummary(now) is
\* called
TickJoin(p) ==
    /\ tick[p].pc = "processing"
    /\ AllSettled(tick[p])
    /\ tick' = [tick EXCEPT ![p] =
          IF \E id \in DOMAIN tick[p].tasks :
                 tick[p].tasks[id].pc = "rejected"
          THEN [tick[p] EXCEPT !.pc = "raised"]
          ELSE [tick[p] EXCEPT !.pc = "summaryCheck",
                               !.summaryCalls = @ + 1]]
    /\ UNCHANGED <<clock, calendar, taskRuns, dailySummaries, emails, sched,
                   ticksStarted, handlerCalls, faults,
                   responses, day, store>>

\* ------------------------------------------------------------------------
\* SummaryService.maybeSendSummary, called by handleTick
\* ------------------------------------------------------------------------
\* the catch around maybeSendSummary dropping the message of the error
SummaryCaught_NoReason(reason) ==
    [sent |-> FALSE, reason |-> "undefined", messageId |-> 0]

\* the catch in handleTick around maybeSendSummary
SummaryCaught(reason) ==
    [sent |-> FALSE, reason |-> reason, messageId |-> 0]

\* the CronResult of a handleTick invocation that returns in this step is
\* handed to the caller
Respond(p) ==
    responses' = IF tick'[p].pc = "returned"
                 THEN Append(responses, [now |-> tick'[p].now,
                                         result |-> tick'[p].result])
                 ELSE responses

\* the hour test made before the look-up of the record
SummaryCheck_HourFirst(p) ==
    /\ tick[p].pc = "summaryCheck"
    /\ LET t == tick[p]
           window == getDayWindow(timezone, t.now)
       IN \E ok \in CallOutcomes, localHour \in getLocalHour(timezone, t.now) :
            Charge(ok) /\
            tick' = [tick EXCEPT ![p] =
              IF localHour < summaryHourUtc
              THEN Returned(t, [sent |-> FALSE, reason |-> "too-early",
                                messageId |-> 0])
              ELSE IF ~ok
              THEN Returned(t, SummaryCaught("getForDate raised"))
              ELSE IF getForDate(dailySummaries, window.dateKey)
              THEN Returned(t, [sent |-> FALSE, reason |-> "already-sent",
                                messageId |-> 0])
              ELSE [t EXCEPT !.pc = "summaryList"]]
    /\ Respond(p)
    /\ UNCHANGED <<clock, calendar, taskRuns, dailySummaries, emails, sched,
                   ticksStarted, handlerCalls, day, store>>

\* getForDate, then the hour test
SummaryCheck(p) ==
    /\ tick[p].pc = "summaryCheck"
    /\ LET t == tick[p]
           window == getDayWindow(timezone, t.now)
       IN \E ok \in CallOutcomes, localHour \in getLocalHour(timezone, t.now) :
            Charge(ok) /\
            tick' = [tick EXCEPT ![p] =
              IF ~ok
              THEN Returned(t, SummaryCaught("getForDate raised"))
              ELSE IF getForDate(dailySummaries, window.dateKey)
              THEN Returned(t, [sent |-> FALSE, reason |-> "already-sent",
                                messageId |-> 0])
              ELSE IF localHour < summaryHourUtc
              THEN Returned(t, [sent |-> FALSE, reason |-> "too-early",
                                messageId |-> 0])
              ELSE [t EXCEPT !.pc = "summaryList"]]
    /\ Respond(p)
    /\ UNCHANGED <<clock, calendar, taskRuns, dailySummaries, emails, sched,
                   ticksStarted, handlerCalls, day, store>>

\* listRunsBetween(start, end) and buildSummaryBody
SummaryList(p) ==
    /\ tick[p].pc = "summaryList"
    /\ \E ok \in CallOutcomes : Charge(ok) /\
         tick' = [tick EXCEPT ![p] =
            IF ok THEN [tick[p] EXCEPT !.pc = "summarySend"]
            ELSE Returned(tick[p], SummaryCaught("listByDateRange raised"))]
    /\ Respond(p)
    /\ UNCHANGED <<clock, calendar, taskRuns, dailySummaries, emails, sched,
                   ticksStarted, handlerCalls, day, store>>

\* the send whose failure is recorded as a sent digest
SummarySend_MarksOnFailure(p) ==
    /\ tick[p].pc = "summarySend"
    /\ LET t == tick[p]
           window == getDayWindow(timezone, t.now)
       IN \E ok \in CallOutcomes : Charge(ok) /\
            IF ok
            THEN /\ emails' = Append(emails,
                       [dateKey |-> window.dateKey,
                        messageId |-> Len(emails) + 1])
                 /\ tick' = [tick EXCEPT ![p].pc = "summaryMark",
                                         ![p].messageId = Len(emails) + 1]
                 /\ UNCHANGED dailySummaries
            ELSE /\ tick' = [tick EXCEPT ![p] =
                       Returned(t, SummaryCaught("Failed to send email"))]
                 /\ dailySummaries' = markSent(dailySummaries,
                                               window.dateKey, 0, t.now)
                 /\ UNCHANGED emails
    /\ Respond(p)
    /\ UNCHANGED <<clock, calendar, taskRuns, sched,
                   ticksStarted, handlerCalls, day, store>>

\* sendTextEmail: the message id is fresh (crypto.randomUUID)
SummarySend(p) ==
    /\ tick[p].pc = "summarySend"
    /\ LET t == tick[p]
           window == getDayWindow(timezone, t.now)
       IN \E ok \in CallOutcomes : Charge(ok) /\
            IF ok
            THEN /\ emails' = Append(emails,
                       [dateKey |-> window.dateKey,
                        messageId |-> Len(emails) + 1])
                 /\ tick' = [tick EXCEPT ![p].pc = "summaryMark",
                                         ![p].messageId = Len(emails) + 1]
            ELSE /\ tick' = [tick EXCEPT ![p] =
                       Returned(t, SummaryCaught("Failed to send email"))]
                 /\ UNCHANGED emails
    /\ Respond(p)
    /\ UNCHANGED <<clock, calendar, taskRuns, dailySummaries, sched,
                   ticksStarted, handlerCalls, day, store>>

\* markSent(dateKey, result.messageId, now)
SummaryMark(p) ==
    /\ tick[p].pc = "summaryMark"
    /\ LET t == tick[p]
           window == getDayWindow(timezone, t.now)
       IN \E ok \in CallOutcomes : Charge(ok) /\
            IF ok
            THEN /\ dailySummaries' = markSent(dailySummaries, window.dateKey,
                                               t.messageId, t.now)
                 /\ tick' = [tick EXCEPT ![p] =
                       Returned(t, [sent |-> TRUE, reason |-> "undefined",
                                    messageId |-> t.messageId])]
            ELSE /\ tick' = [tick EXCEPT ![p] =
                       Returned(t, SummaryCaught("markSent raised"))]
                 /\ UNCHANGED dailySummaries
    /\ Respond(p)
    /\ UNCHANGED <<clock, calendar, taskRuns, emails, sched,
                   ticksStarted, handlerCalls, day, store>>

\* ------------------------------------------------------------------------
\* Chat.createCalendarEventFromSchedule
\* ------------------------------------------------------------------------
\* resolveStartTime: new Date() (a schedule without a date or delay)
StartTimes(now) == {now}

\* the call up to the await of calendarService.createEvent
SchedStart ==
    /\ sched.pc \in {"idle", "done"}
    /\ sched.count < MaxSchedules
    /\ \E start \in StartTimes(clock) :
         sched' = [pc |-> "createEvent",
                   event |-> [id |-> FirstCreatedId + sched.count,
                              title |-> ScheduleDescription,
                              description |-> ScheduleDescription,
                              start |-> start,
                              end |-> start + DefaultEndMinutes * 60 * 1000,
                              status |-> "confirmed"],
                   count |-> sched.count + 1]
    /\ UNCHANGED <<clock, calendar, taskRuns, dailySummaries, emails, tick,
                   ticksStarted, handlerCalls, faults,
                   responses, day, store>>

\* the Event Gateway creates the event, or raises
SchedCreateEvent ==
    /\ sched.pc = "createEvent"
    /\ \E ok \in CallOutcomes : Charge(ok) /\
         IF ok
         THEN /\ calendar' = calendar \cup {sched.event}
              /\ sched' = [sched EXCEPT !.pc = "lookup"]
         ELSE /\ sched' = [sched EXCEPT !.pc = "done"]
              /\ UNCHANGED calendar
    /\ UNCHANGED <<clock, taskRuns, dailySummaries, emails, tick,
                   ticksStarted, handlerCalls,
                   responses, day, store>>

\* createRunIfMissing(event): the findByEventAndStart lookup
SchedLookup ==
    /\ sched.pc = "lookup"
    /\ \E ok \in CallOutcomes : Charge(ok) /\
         sched' = [sched EXCEPT !.pc =
            IF ok /\ ~findByEventAndStart(taskRuns, sched.event.id,
                                          sched.event.start)
            THEN "insert" ELSE "done"]
    /\ UNCHANGED <<clock, calendar, taskRuns, dailySummaries, emails, tick,
                   ticksStarted, handlerCalls,
                   responses, day, store>>

\* createRunIfMissing(event): the repository create
SchedCreate ==
    /\ sched.pc = "insert"
    /\ \E ok \in CallOutcomes : Charge(ok) /\
         IF ok
         THEN taskRuns' = create(taskRuns, CreateInput(sched.event))
         ELSE UNCHANGED taskRuns
    /\ sched' = [sched EXCEPT !.pc = "done"]
    /\ UNCHANGED <<clock, calendar, dailySummaries, emails, tick,
                   ticksStarted, handlerCalls,
                   responses, day, store>>

\* ------------------------------------------------------------------------
\* Time
\* ------------------------------------------------------------------------
AdvanceClock ==
    /\ clock < T0 + MaxClockSteps * ClockStep
    /\ clock' = clock + ClockStep
    /\ UNCHANGED <<calendar, taskRuns, dailySummaries, emails, tick, sched,
                   ticksStarted, handlerCalls, faults,
                   responses, day, store>>

EventIdSet == { e.id : e \in InitialEvents \cup {ExtraEvent} }
                  \cup { FirstCreatedId + n : n \in 0..MaxSchedules }

\* the steps of the handleTick invocation in slot p
TickStep(p) ==
    \/ StartTick(p)
    \/ FetchFail(p)
    \/ FetchOk(p)
    \/ \E id \in EventIdSet : TaskLookup(p, id)
    \/ \E id \in EventIdSet : TaskCreate(p, id)
    \/ \E id \in EventIdSet : TaskMarkRunning(p, id)
    \/ \E id \in EventIdSet : TaskExecute(p, id)
    \/ \E id \in EventIdSet : TaskMarkFailed(p, id)
    \/ \E id \in EventIdSet : TaskMarkCompleted(p, id)
    \/ TickJoin(p)
    \/ SummaryCheck(p)
    \/ SummaryList(p)
    \/ SummarySend(p)
    \/ SummaryMark(p)

\* the steps of createCalendarEventFromSchedule
SchedStep ==
    \/ SchedStart
    \/ SchedCreateEvent
    \/ SchedLookup
    \/ SchedCreate

\* concurrent handleTick invocations
Next ==
    \/ \E p \in Procs : TickStep(p)
    \/ AdvanceClock

Spec == Init /\ [][Next]_vars

\* non-overlapping handleTick invocations, over a calendar with two events
\* due at the first instant
InitSeq ==
    /\ clock = T0
    /\ calendar = InitialEvents \cup {ExtraEvent}
    /\ taskRuns = <<>>
    /\ dailySummaries = {}
    /\ emails = <<>>
    /\ tick = [p \in Procs |-> IdleTick]
    /\ sched = IdleSched
    /\ ticksStarted = 0
    /\ handlerCalls = <<>>
    /\ faults = 0
    /\ responses = <<>>
    /\ day = IdleDay
    /\ store = IdleStore

NextSeq ==
    \/ TickStep(1)
    \/ AdvanceClock

SpecSeq == InitSeq /\ [][NextSeq]_vars

\* non-overlapping invocations in which every awaited call settles: it
\* returns or it raises
SpecSeqFair == SpecSeq /\ WF_vars(Active(1) /\ TickStep(1))

\* a calendar holding only the events that createCalendarEventFromSchedule
\* creates, at an instant after the summary hour
InitSched ==
    /\ clock = T0 + MaxClockSteps * ClockStep
    /\ calendar = {}
    /\ taskRuns = <<>>
    /\ dailySummaries = {}
    /\ emails = <<>>
    /\ tick = [p \in Procs |-> IdleTick]
    /\ sched = IdleSched
    /\ ticksStarted = 0
    /\ handlerCalls = <<>>
    /\ faults = 0
    /\ responses = <<>>
    /\ day = IdleDay
    /\ store = IdleStore

\* one handleTick invocation at a time, concurrent with
\* createCalendarEventFromSchedule, all at one instant
NextSched ==
    \/ TickStep(1)
    \/ SchedStep

SpecSched == InitSched /\ [][NextSched]_vars

\* the cron trigger keeps calling handleTick and every awaited call settles
SpecSchedFair == SpecSched /\ WF_vars(TickStep(1)) /\ WF_vars(SchedStep)

\* the instants given to getDayWindow: the hours of the days 1..MaxDays
DayInstants == { h * MsPerHour : h \in 24..((MaxDays + 1) * 24 - 1) }

\* a SummaryService configured with a zone is given an instant
InitDay ==
    /\ clock = T0
    /\ calendar = InitialEvents
    /\ taskRuns = <<>>
    /\ dailySummaries = {}
    /\ emails = <<>>
    /\ tick = [p \in Procs |-> IdleTick]
    /\ sched = IdleSched
    /\ ticksStarted = 0
    /\ handlerCalls = <<>>
    /\ faults = 0
    /\ responses = <<>>
    /\ day \in { [pc |-> "called", tz |-> z, date |-> d, window |-> NoWindow] :
                   z \in Zones, d \in DayInstants }
    /\ store = IdleStore

\* getDayWindow(date) returns
DayWindowReturns ==
    /\ day.pc = "called"
    /\ day' = [day EXCEPT !.pc = "returned",
                          !.window = getDayWindow(day.tz, day.date)]
    /\ UNCHANGED <<clock, calendar, taskRuns, dailySummaries, emails, tick,
                   sched, ticksStarted, handlerCalls, faults, responses, store>>

NextDay == DayWindowReturns

SpecDay == InitDay /\ [][NextDay]_vars

\* ------------------------------------------------------------------------
\* TaskRunService.updateStatus and TaskRunService.listRunsBetween over a
\* Run Store
\* ------------------------------------------------------------------------
\* the seconds at which the stored runs are scheduled
StoreSeconds == { toEpochSeconds(T0) + n : n \in 0..1 }

\* the instants given as start and end: whole seconds and instants within a
\* second
StoreInstants ==
    UNION { { sec * MsPerSecond, sec * MsPerSecond + 500 } : sec \in StoreSeconds }

\* the rows a Run Store can hold: create gives each row a fresh id
StoreRows(n) ==
    [1..n -> [calendar_event_id : {1},
              scheduled_start : StoreSeconds,
              status : {"pending", "running", "completed", "failed",
                        "skipped"},
              summary : {Null},
              error : {Null}]]

\* the tables of n rows, the id of a row being its position
StoreTable(n) ==
    { [i \in 1..n |->
         [id |-> i,
          calendar_event_id |-> r[i].calendar_event_id,
          scheduled_start |-> r[i].scheduled_start,
          status |-> r[i].status,
          summary |-> r[i].summary,
          error |-> r[i].error]] : r \in StoreRows(n) }

\* the Run Stores the calls are made on
StoreTables == UNION { StoreTable(n) : n \in 0..MaxRows }

\* the calls made on the service
StoreCalls ==
    { [IdleStore EXCEPT !.pc = "called", !.op = "updateStatus",
                        !.id = i, !.status = st] :
        i \in 1..(MaxRows + 1), st \in {"running", "failed"} }
    \cup
    { [IdleStore EXCEPT !.pc = "called", !.op = "listRunsBetween",
                        !.start = a, !.end = b] :
        a \in StoreInstants, b \in StoreInstants }

InitStore ==
    /\ clock = T0
    /\ calendar = {}
    /\ taskRuns \in StoreTables
    /\ dailySummaries = {}
    /\ emails = <<>>
    /\ tick = [p \in Procs |-> IdleTick]
    /\ sched = IdleSched
    /\ ticksStarted = 0
    /\ handlerCalls = <<>>
    /\ faults = 0
    /\ responses = <<>>
    /\ day = IdleDay
    /\ store \in StoreCalls

\* TaskRunService.updateStatus(id, status) returns
StoreUpdateStatus ==
    /\ store.pc = "called"
    /\ store.op = "updateStatus"
    /\ LET input == UpdateInput(store.id, store.status, Null, Null)
       IN /\ taskRuns' = updateStatus(taskRuns, input)
          /\ store' = [store EXCEPT !.pc = "returned",
                                    !.before = taskRuns,
                                    !.returned = findById(taskRuns', input.id)]
    /\ UNCHANGED <<clock, calendar, dailySummaries, emails, tick, sched,
                   ticksStarted, handlerCalls, faults, responses, day>>

\* TaskRunService.listRunsBetween(start, end) returns
StoreListRunsBetween ==
    /\ store.pc = "called"
    /\ store.op = "listRunsBetween"
    /\ \E runs \in listByDateRange(taskRuns, store.start, store.end) :
         store' = [store EXCEPT !.pc = "returned",
                                !.before = taskRuns,
                                !.runs = runs]
    /\ UNCHANGED <<clock, calendar, taskRuns, dailySummaries, emails, tick,
                   sched, ticksStarted, handlerCalls, faults, responses, day>>

\* buildSummaryBody(dateKey, runs) over the runs listed for [start, end]
StoreBuildSummaryBody ==
    /\ store.pc = "returned"
    /\ store.op = "listRunsBetween"
    /\ store' = [store EXCEPT
                   !.pc = "composed",
                   !.body = buildSummaryBody(getDateKey(store.start),
                                             store.runs)]
    /\ UNCHANGED <<clock, calendar, taskRuns, dailySummaries, emails, tick,
                   sched, ticksStarted, handlerCalls, faults, responses, day>>

NextStore ==
    \/ StoreUpdateStatus
    \/ StoreListRunsBetween
    \/ StoreBuildSummaryBody

SpecStore == InitStore /\ [][NextStore]_vars

\* ------------------------------------------------------------------------
\* SummaryService.maybeSendSummary over a Digest Store, at any hour
\* ------------------------------------------------------------------------
\* the instants of the ticks (new Date(), in milliseconds): after midnight,
\* in the morning and after the summary hour of the days 1..MaxDays, on a
\* whole second or within one
DigestInstants ==
    { d * MsPerDay + h * MsPerHour + 30 * MsPerMinute + ms :
        d \in 1..MaxDays, h \in {0, 10, summaryHourUtc}, ms \in {0, 500} }

\* the deliveries of earlier digests: none, or the one of the day of an
\* instant
DigestDeliveries ==
    {<<>>} \cup
    { <<[dateKey |-> getDayWindow(timezone, d).dateKey, messageId |-> 1]>> :
        d \in DigestInstants }

\* the Digest Store after these deliveries
DigestStore(sent) ==
    IF sent = <<>> THEN {}
    ELSE markSent({}, sent[1].dateKey, sent[1].messageId,
                  sent[1].dateKey * MsPerDay + summaryHourUtc * MsPerHour)

\* handleTick over an empty calendar, at an instant of any hour, with or
\* without a digest already sent
InitDigest ==
    /\ clock \in DigestInstants
    /\ calendar = {}
    /\ taskRuns = <<>>
    /\ emails \in DigestDeliveries
    /\ dailySummaries = DigestStore(emails)
    /\ tick = [p \in Procs |-> IdleTick]
    /\ sched = IdleSched
    /\ ticksStarted = 0
    /\ handlerCalls = <<>>
    /\ faults = 0
    /\ responses = <<>>
    /\ day = IdleDay
    /\ store = IdleStore

NextDigest ==
    \/ StartTick(1)
    \/ FetchFail(1)
    \/ FetchOk(1)
    \/ TickJoin(1)
    \/ SummaryCheck(1)
    \/ SummaryList(1)
    \/ SummarySend(1)
    \/ SummaryMark(1)

SpecDigest == InitDigest /\ [][NextDigest]_vars

\* ------------------------------------------------------------------------
\* Properties
\* ------------------------------------------------------------------------
\* number of rows of task_runs for the dedup key of an event
RowCount(event) ==
    Cardinality(RowsByEventAndStart(taskRuns, event.id, event.start))

\* the row of a run id
RowOf(id) == taskRuns[CHOOSE i \in 1..Len(taskRuns) : taskRuns[i].id = id]

\* the tasks of the handleTick invocation in slot p
TaskIds(p) == DOMAIN tick[p].tasks

\* C1: in every reachable state the Run Store holds at most one record per
\* (calendarEventId, scheduledStart), also when handleTick invocations
\* interleave between the lookup and the create
C1_AtMostOneRunPerKey ==
    \A i, j \in 1..Len(taskRuns) :
        (/\ taskRuns[i].calendar_event_id = taskRuns[j].calendar_event_id
         /\ taskRuns[i].scheduled_start = taskRuns[j].scheduled_start)
            => i = j

\* C2: with createRunIfMissing calls that are not interleaved, a call that
\* returns a record has created the only record of its key, with status
\* pending, and a call that returns absent leaves exactly one record of the
\* key: the first call creates, every later call returns absent
C2_CreateRunIfMissingIdempotent ==
    \A id \in TaskIds(1) :
        LET task == tick[1].tasks[id]
            event == EventOf(1, id)
        IN /\ RowCount(event) <= 1
           /\ task.runCreated =>
                /\ RowCount(event) = 1
                /\ task.run.status = "pending"
                /\ task.run.calendarEventId = event.id
                /\ RowsByEventAndStart(taskRuns, event.id, event.start)
                       = {task.run.id}
           /\ task.outcome = "duplicate" =>
                /\ RowCount(event) = 1
                /\ task.run = NoRun

\* a second invocation has been answered absent for a key whose record an
\* earlier invocation created
C2_Witness ==
    /\ ticksStarted = 2
    /\ \E id \in TaskIds(1) :
         /\ tick[1].tasks[id].outcome = "duplicate"
         /\ RowCount(EventOf(1, id)) = 1

\* C3: across non-overlapping ticks the Task Handler is invoked at most once
\* per (event.id, event.start), and an event skipped as a duplicate gets no
\* handler invocation, no status update and no count
C3_HandlerAtMostOncePerOccurrence ==
    /\ \A key \in DOMAIN handlerCalls : handlerCalls[key] <= 1
    /\ \A id \in TaskIds(1) :
         LET task == tick[1].tasks[id]
         IN task.outcome = "duplicate" =>
              /\ ~task.executed
              /\ task.updates = <<>>
              /\ ~task.created
              /\ ~task.failed

\* a later tick has skipped an occurrence whose handler ran in an earlier tick
C3_Witness ==
    /\ ticksStarted = 2
    /\ tick[1].pc = "returned"
    /\ \E id \in TaskIds(1) :
         /\ tick[1].tasks[id].outcome = "duplicate"
         /\ Invocations(handlerCalls,
                        <<id, EventOf(1, id).start>>) = 1
         /\ tick[1].result.createdRuns = 0

\* the tasks of a slot that ended by an error caught in the outer catch
RaisedOutcomes ==
    {"lookupRaised", "createRaised", "runningRaised", "failedRaised",
     "completedRaised"}

\* handleTick in slot p is past Promise.all
PastProcessing(p) ==
    tick[p].pc \in {"summaryCheck", "summaryList", "summarySend",
                    "summaryMark", "returned"}

\* the Task Handler raised in this task
HandlerRaised(task) == task.executed /\ task.message # Null

\* the Task Handler returned in this task
HandlerReturned(task) ==
    /\ task.executed
    /\ task.outcome \in {"completed", "completedRaised"}

\* C4: within one tick a failure while processing one due event does not
\* keep any other due event from its own create, running transition and
\* handler invocation: the tick only leaves the per-event phase when every
\* due event has run to its own end, it never raises there, and how far an
\* event got depends on its own calls alone
C4_PerEventFailureIsolation ==
    \A p \in Procs :
        /\ tick[p].pc = "raised" => TaskIds(p) = {}
        /\ PastProcessing(p) =>
             \A id \in TaskIds(p) :
                LET task == tick[p].tasks[id]
                IN /\ task.pc = "done"
                   /\ task.outcome # "none"
                   /\ task.outcome \notin
                        {"duplicate", "lookupRaised", "createRaised"}
                          => task.runCreated /\ Head(task.updates) = "running"
                   /\ task.outcome \notin
                        {"duplicate", "lookupRaised", "createRaised",
                         "runningRaised"}
                          => task.executed

\* one due event of a tick failed and another of the same tick was created,
\* set running and executed
C4_Witness ==
    /\ tick[1].pc = "returned"
    /\ \E failedId, otherId \in TaskIds(1) :
         /\ failedId # otherId
         /\ tick[1].tasks[failedId].outcome \in RaisedOutcomes
         /\ tick[1].tasks[otherId].outcome = "completed"
         /\ tick[1].tasks[otherId].executed
         /\ RowOf(tick[1].tasks[otherId].run.id).status = "completed"

\* C5: whenever the Task Handler raises for a run created in the tick, the
\* run's persisted status at the end of the tick is failed and failedRuns
\* counts the event
C5_HandlerFailureRecorded ==
    \A p \in Procs :
        tick[p].pc = "returned" =>
            /\ \A id \in TaskIds(p) :
                 LET task == tick[p].tasks[id]
                 IN HandlerRaised(task) =>
                      /\ RowOf(task.run.id).status = "failed"
                      /\ task.failed
            /\ tick[p].result.failedRuns =
                 Cardinality({ id \in TaskIds(p) :
                                 HandlerRaised(tick[p].tasks[id]) })

C7_CompletedUpdateFailureNotCounted ==
    \A p \in Procs :
        \A id \in TaskIds(p) :
            LET task == tick[p].tasks[id]
            IN task.outcome = "completedRaised" =>
                 /\ task.updates = <<"running", "completed">>
                 /\ task.created
                 /\ ~task.failed
                 /\ tick[p].pc = "returned" =>
                      /\ tick[p].result.createdRuns >= 1
                      /\ tick[p].result.failedRuns =
                           Cardinality({ o \in TaskIds(p) \ {id} :
                                           tick[p].tasks[o].failed })

\* a tick has returned after the completed update of its only created run
\* raised
C7_Witness ==
    /\ tick[1].pc = "returned"
    /\ \E id \in TaskIds(1) :
         /\ tick[1].tasks[id].outcome = "completedRaised"
         /\ tick[1].result.failedRuns = 0
         /\ tick[1].result.createdRuns >= 1

\* the due events of a slot skipped because createRunIfMissing returned absent
Duplicates(p) ==
    { id \in TaskIds(p) : tick[p].tasks[id].outcome = "duplicate" }

\* the due events of a slot whose createRunIfMissing raised
CreateErrors(p) ==
    { id \in TaskIds(p) :
        tick[p].tasks[id].outcome \in {"lookupRaised", "createRaised"} }

\* C8 (as stated): for every returned tick, createdRuns plus the number of
\* due events skipped as duplicates equals dueEvents
C8_CreatedPlusDuplicates ==
    \A p \in Procs :
        tick[p].pc = "returned" =>
            tick[p].result.createdRuns + Cardinality(Duplicates(p))
                = tick[p].result.dueEvents

\* C8 (amended): for every returned tick, createdRuns plus the due events
\* skipped as duplicates plus the due events whose createRunIfMissing raised
\* equals dueEvents
C8_CreatedPlusDuplicatesPlusErrors ==
    \A p \in Procs :
        tick[p].pc = "returned" =>
            tick[p].result.createdRuns + Cardinality(Duplicates(p))
                + Cardinality(CreateErrors(p))
                = tick[p].result.dueEvents

\* a tick has returned with one due event created and one whose
\* createRunIfMissing raised
C8_Witness ==
    /\ tick[1].pc = "returned"
    /\ tick[1].result.dueEvents = 2
    /\ tick[1].result.createdRuns = 1
    /\ Cardinality(CreateErrors(1)) = 1

\* C9: for every returned tick,
\* failedRuns <= createdRuns <= dueEvents <= checkedEvents
C9_CountsOrdered ==
    \A p \in Procs :
        tick[p].pc = "returned" =>
            /\ tick[p].result.failedRuns <= tick[p].result.createdRuns
            /\ tick[p].result.createdRuns <= tick[p].result.dueEvents
            /\ tick[p].result.dueEvents <= tick[p].result.checkedEvents

\* a tick has returned with a failed run, a due event that created nothing
\* and a fetched event that was not due
C9_Witness ==
    /\ tick[1].pc = "returned"
    /\ tick[1].result.failedRuns = 1
    /\ tick[1].result.createdRuns = 1
    /\ tick[1].result.dueEvents = 2
    /\ tick[1].result.checkedEvents = 3

\* C10: if the Event Gateway fetch fails, handleTick raises and has no
\* effect: no run record, status update, handler invocation, digest call,
\* email or DailySummaryRecord comes from it
C10_FetchFailureAborts ==
    /\ [](\A p \in Procs :
            tick[p].pc = "raised" =>
               /\ TaskIds(p) = {}
               /\ tick[p].summaryCalls = 0
               /\ tick[p].result = NoResult)
    /\ [][\A p \in Procs :
            (/\ tick[p].pc = "fetching"
             /\ tick'[p].pc # "fetching"
             /\ faults' = faults + 1) =>
               /\ tick'[p].pc = "raised"
               /\ UNCHANGED <<taskRuns, dailySummaries, emails,
                              handlerCalls>>]_vars

\* a fetch has failed while the store already held a record
C10_Witness ==
    /\ \E p \in Procs : tick[p].pc = "raised"
    /\ Len(taskRuns) = 1

\* the positions of a handleTick invocation inside maybeSendSummary
SummaryPcs == {"summaryCheck", "summaryList", "summarySend", "summaryMark"}

\* C11: once the Event Gateway fetch has returned, handleTick ends by
\* returning its CronResult whatever createRunIfMissing, updateStatus, the
\* Task Handler, the Digest Store, the run listing and the Notification
\* Gateway do; the only step by which an invocation raises is the fetch
C11_ReturnsOnceFetched ==
    /\ \A p \in Procs :
         (tick[p].pc \in {"processing"} \cup SummaryPcs)
             ~> (tick[p].pc = "returned")
    /\ [][\A p \in Procs :
            (tick'[p].pc = "raised" /\ tick[p].pc # "raised")
                => tick[p].pc = "fetching"]_vars

\* a tick has returned although its handler threw and the update to failed
\* raised as well
C11_Witness ==
    \E p \in Procs :
        /\ tick[p].pc = "returned"
        /\ tick[p].result # NoResult
        /\ \E id \in TaskIds(p) : tick[p].tasks[id].outcome = "failedRaised"
\* C12: a tick whose fetch returned calls maybeSendSummary(now) exactly once,
\* and not before every due event of the tick has a finished task (its last
\* status update attempted), whatever the outcomes of the tasks
C12_SummaryOnceAfterProcessing ==
    \A p \in Procs :
        LET t == tick[p]
        IN /\ t.summaryCalls <= 1
           /\ t.pc \in {"idle", "fetching", "processing", "raised"}
                 => t.summaryCalls = 0
           /\ t.pc \in SummaryPcs \cup {"returned"} => t.summaryCalls = 1
           /\ t.summaryCalls = 1 =>
                 /\ DOMAIN t.tasks = { e.id : e \in t.due }
                 /\ \A id \in DOMAIN t.tasks :
                       /\ t.tasks[id].pc = "done"
                       /\ t.tasks[id].outcome # "none"

\* a tick with two due events, one failed and one completed, has called
\* maybeSendSummary and returned
C12_Witness ==
    \E p \in Procs :
        /\ tick[p].pc = "returned"
        /\ tick[p].summaryCalls = 1
        /\ \E i, j \in TaskIds(p) :
              /\ tick[p].tasks[i].outcome = "failed"
              /\ tick[p].tasks[j].outcome = "completed"
\* the message of the error raised by the call awaited at a position of
\* maybeSendSummary
RaisedReason(pc) ==
    CASE pc = "summaryCheck" -> "getForDate raised"
      [] pc = "summaryList" -> "listByDateRange raised"
      [] pc = "summarySend" -> "Failed to send email"
      [] pc = "summaryMark" -> "markSent raised"

\* the events of a tick for which a run was created by the tick
CreatedIds(t) ==
    { id \in DOMAIN t.tasks :
        t.tasks[id].outcome \notin {"duplicate", "lookupRaised",
                                    "createRaised"} }

\* number of events of a tick that were counted as failed executions
FailedIds(t) == { id \in DOMAIN t.tasks : t.tasks[id].outcome = "failed" }

\* the call awaited by maybeSendSummary in slot p raises in this step
SummaryRaises(p) ==
    /\ tick[p].pc \in SummaryPcs
    /\ tick'[p].pc # tick[p].pc
    /\ faults' = faults + 1

\* C13: when maybeSendSummary raises, handleTick does not raise: it returns
\* its CronResult with the event counts of the tick and
\* summary = {sent: false, reason: the message of the error}
C13_SummaryErrorCaught ==
    [][\A p \in Procs :
         SummaryRaises(p) =>
            /\ tick'[p].pc = "returned"
            /\ tick'[p].result.checkedEvents = Cardinality(tick[p].events)
            /\ tick'[p].result.dueEvents = Cardinality(tick[p].due)
            /\ tick'[p].result.createdRuns = Cardinality(CreatedIds(tick[p]))
            /\ tick'[p].result.failedRuns = Cardinality(FailedIds(tick[p]))
            /\ tick'[p].result.summary.sent = FALSE
            /\ tick'[p].result.summary.reason = RaisedReason(tick[p].pc)
            /\ responses' = Append(responses, [now |-> tick[p].now,
                                               result |-> tick'[p].result])
      ]_vars

\* a tick that created two runs, one of them failed, has returned the reason
\* of the Digest Store error
C13_Witness ==
    \E p \in Procs :
        /\ tick[p].pc = "returned"
        /\ tick[p].result.summary.reason = "getForDate raised"
        /\ tick[p].result.createdRuns = 2
        /\ tick[p].result.failedRuns = 1
\* the dateKey and the local hour of the maybeSendSummary call of a response
ResponseKey(i) == getDayWindow(timezone, responses[i].now).dateKey

ResponseHour(i) == LocalHour(timezone, responses[i].now)

SummaryOf(i) == responses[i].result.summary

\* the responses of the ticks before response i that called maybeSendSummary
\* in the same local day
EarlierSameDay(i) ==
    { j \in 1..(i - 1) : ResponseKey(j) = ResponseKey(i) }

\* the emails delivered for a dateKey
EmailsFor(k) == { n \in 1..Len(emails) : emails[n].dateKey = k }

\* the invocations that have delivered an email for a dateKey and not yet
\* returned
Delivering(k) ==
    { p \in Procs : /\ tick[p].pc = "summaryMark"
                    /\ getDayWindow(timezone, tick[p].now).dateKey = k }

DateKeys == { getDayWindow(timezone, T0 + n * ClockStep).dateKey :
                n \in 0..(MaxClockSteps + 1) }

RaisedReasons == { RaisedReason(pc) : pc \in SummaryPcs }

C15_AtMostOneEmailPerDateKey ==
    \A k \in DateKeys : Cardinality(EmailsFor(k)) <= 1

\* C16: a daily_summaries record, once written, stays as it is: a later
\* markSent for its dateKey changes neither sent_at nor message_id
C16_RecordNeverUpdated ==
    [][\A r \in dailySummaries : r \in dailySummaries']_vars
\* C17: table daily_summaries never holds two rows with the same date_key,
\* also when concurrent maybeSendSummary invocations both call markSent
C17_OneRecordPerDateKey ==
    \A r1, r2 \in dailySummaries : r1.date_key = r2.date_key => r1 = r2

\* two invocations have both returned sent for the same dateKey, and the
\* table holds the row of that dateKey
C17_Witness ==
    /\ \E i, j \in 1..Len(responses) :
          /\ i < j
          /\ ResponseKey(i) = ResponseKey(j)
          /\ SummaryOf(i).sent
          /\ SummaryOf(j).sent
          /\ getForDate(dailySummaries, ResponseKey(i))
    /\ Cardinality(dailySummaries) = 1
\* the Notification Gateway send awaited by slot p raises in this step
SendRaises(p) == tick[p].pc = "summarySend" /\ SummaryRaises(p)

\* C18: a daily_summaries row stands for a delivered email of its dateKey;
\* a send that raises writes no row for the dateKey, and the next invocation
\* of the day at or after the threshold hour goes on to the send again
C18_RecordOnlyAfterDelivery ==
    /\ [](\A r \in dailySummaries :
            \E n \in 1..Len(emails) :
                /\ emails[n].dateKey = r.date_key
                /\ emails[n].messageId = r.message_id)
    /\ [](\A i \in 1..Len(responses) :
            SummaryOf(i).reason = "Failed to send email" =>
               /\ \A j \in EarlierSameDay(i) : ~SummaryOf(j).sent
               /\ (i + 1) \in 1..Len(responses)
                    /\ ResponseKey(i + 1) = ResponseKey(i)
                    /\ ResponseHour(i + 1) >= summaryHourUtc
                    /\ SummaryOf(i + 1).reason # "getForDate raised"
                  => \/ SummaryOf(i + 1).sent
                     \/ SummaryOf(i + 1).reason \in RaisedReasons)
    /\ [][\A p \in Procs :
            SendRaises(p) =>
               /\ dailySummaries' = dailySummaries
               /\ emails' = emails
               /\ ~getForDate(dailySummaries',
                              getDayWindow(timezone, tick[p].now).dateKey)
               /\ tick'[p].result.summary.reason = "Failed to send email"
       ]_vars

\* the send of one invocation raised and left no record; the next
\* invocation of the day sent the digest and recorded it
C18_Witness ==
    /\ Len(responses) >= 2
    /\ SummaryOf(1).reason = "Failed to send email"
    /\ SummaryOf(2).sent
    /\ ResponseKey(1) = ResponseKey(2)
    /\ dailySummaries =
          { [date_key |-> ResponseKey(2),
             sent_at |-> responses[2].now \div MsPerSecond,
             message_id |-> SummaryOf(2).messageId] }
    /\ Len(emails) = 1
\* the offsets a zone has
ZoneOffsets(tz) == { UtcOffsetMs(tz, d) : d \in {0, SpringForward} }

\* the day of the local calendar date of an instant
LocalDay(tz, ms) == (ms + UtcOffsetMs(tz, ms)) \div MsPerDay

\* the instant at which the local clock of the zone shows 00:00:00 of the
\* local calendar date of ms
LocalMidnight(tz, ms) ==
    CHOOSE m \in { LocalDay(tz, ms) * MsPerDay - o : o \in ZoneOffsets(tz) } :
        m + UtcOffsetMs(tz, m) = LocalDay(tz, ms) * MsPerDay

\* C19: the start of the day window is the instant at which the local
\* calendar day of now began in the configured zone, with the offset in
\* force at that local midnight (America/New_York at 2024-03-10T10:00Z:
\* 2024-03-10T05:00Z; Europe/London at 2024-10-27T10:00Z: 2024-10-26T23:00Z)
C19_StartIsLocalMidnight ==
    day.pc = "returned" =>
        day.window.start = LocalMidnight(day.tz, day.date)
\* the edges of the status of a run
StatusEdges ==
    { <<"pending", "running">>, <<"running", "completed">>,
      <<"running", "failed">> }

\* C20: a run is created as pending and stays a row of the table; each
\* change of its persisted status goes from pending to running or from
\* running to completed or failed
C20_StatusFollowsStateMachine ==
    [][/\ Len(taskRuns') >= Len(taskRuns)
       /\ \A i \in 1..Len(taskRuns') :
             IF i <= Len(taskRuns)
             THEN /\ taskRuns'[i].id = taskRuns[i].id
                  /\ \/ taskRuns'[i].status = taskRuns[i].status
                     \/ <<taskRuns[i].status, taskRuns'[i].status>>
                            \in StatusEdges
             ELSE taskRuns'[i].status = "pending"
      ]_vars

\* the table holds a run that went to failed and a run that went to
\* completed
C20_Witness ==
    \E i, j \in 1..Len(taskRuns) :
        /\ taskRuns[i].status = "failed"
        /\ taskRuns[j].status = "completed"
TerminalStatuses == {"completed", "failed"}

\* C21: a run whose persisted status is completed or failed keeps that
\* status in every later step of every tick, sequential or concurrent
C21_TerminalStatusesStay ==
    [][\A i \in 1..Len(taskRuns) :
          taskRuns[i].status \in TerminalStatuses =>
             /\ i <= Len(taskRuns')
             /\ taskRuns'[i].id = taskRuns[i].id
             /\ taskRuns'[i].status = taskRuns[i].status
      ]_vars

\* a run is completed or failed while a run created after it has been
\* taken to running
C21_Witness ==
    \E i, j \in 1..Len(taskRuns) :
        /\ i < j
        /\ taskRuns[i].status \in TerminalStatuses
        /\ taskRuns[j].status = "running"
\* C22: no row of task_runs has status skipped, whatever handleTick,
\* createRunIfMissing, createCalendarEventFromSchedule and maybeSendSummary
\* have done
C22_NeverSkipped ==
    \A i \in 1..Len(taskRuns) :
        /\ taskRuns[i].status # "skipped"
        /\ taskRuns[i].status \in {"pending", "running"} \cup TerminalStatuses

\* createCalendarEventFromSchedule has created the run of its event and a
\* tick has taken a run to a terminal status and sent the digest
C22_Witness ==
    /\ sched.pc = "done"
    /\ \E i, j \in 1..Len(taskRuns) :
          /\ taskRuns[i].calendar_event_id = FirstCreatedId
          /\ taskRuns[i].status = "pending"
          /\ taskRuns[j].status \in TerminalStatuses
    /\ Len(emails) = 1
\* C23: for a run created in a tick whose store calls return, two status
\* updates are issued: running, before the Task Handler is invoked, then
\* completed if the handler returned and failed if it raised; the failed
\* update carries the message of what the handler raised
C23_TwoUpdatesInOrder ==
    \A p \in Procs : \A id \in TaskIds(p) :
        LET task == tick[p].tasks[id]
        IN /\ task.pc = "execute" =>
                 task.updates = <<"running">> /\ ~task.executed
           /\ task.executed =>
                 Len(task.updates) >= 1 /\ task.updates[1] = "running"
           /\ task.outcome = "completed" =>
                 /\ task.updates = <<"running", "completed">>
                 /\ HandlerReturned(task)
                 /\ RowOf(task.run.id).error = Null
           /\ task.outcome = "failed" =>
                 /\ task.updates = <<"running", "failed">>
                 /\ HandlerRaised(task)
                 /\ task.message \in {ErrorMessage, UnknownExecutionFailure}
                 /\ RowOf(task.run.id).error = task.message

\* a tick has issued running then failed, with the message of the Error,
\* for one run, and running then completed for another
C23_Witness ==
    \E p \in Procs : \E i, j \in TaskIds(p) :
        /\ tick[p].tasks[i].updates = <<"running", "failed">>
        /\ tick[p].tasks[i].outcome = "failed"
        /\ RowOf(tick[p].tasks[i].run.id).error = ErrorMessage
        /\ tick[p].tasks[j].updates = <<"running", "completed">>
        /\ tick[p].tasks[j].outcome = "completed"
        /\ faults = 0
\* C24 as stated: checkedEvents is the number of events that
\* listEventsBetween returned for the window, whatever their status
C24_CheckedIsListed ==
    \A p \in Procs :
        tick[p].pc = "returned" =>
            tick[p].result.checkedEvents = Cardinality(tick[p].listed)

\* C24, amended: checkedEvents is the number of events that
\* listEventsBetween returned for the window and that are not cancelled,
\* due or not
C24_CheckedIsListedNotCancelled ==
    \A p \in Procs :
        tick[p].pc = "returned" =>
            tick[p].result.checkedEvents =
                Cardinality({ e \in tick[p].listed :
                                e.status # "cancelled" })

\* a tick has returned whose window held a cancelled event, a due event and
\* an event of the lookahead part
C24_Witness ==
    \E p \in Procs :
        /\ tick[p].pc = "returned"
        /\ \E e \in tick[p].listed : e.status = "cancelled"
        /\ \E e \in tick[p].listed : e.start > tick[p].now
        /\ tick[p].result.checkedEvents = 2
        /\ tick[p].result.dueEvents = 1
\* the fetched events of a tick that start after its now
Lookahead(t) == { e \in t.events : e.start > t.now }

\* C25: a tick works on the fetched events with start <= now only: an event
\* of the lookahead part of the window has no task in the tick, hence no run
\* record, no status update and no handler invocation, and dueEvents is the
\* number of fetched, not cancelled events with start <= now
C25_OnlyDueEventsProcessed ==
    /\ \A p \in Procs :
          LET t == tick[p]
          IN /\ DOMAIN t.tasks \subseteq
                   { e.id : e \in { d \in t.listed :
                                      /\ d.status # "cancelled"
                                      /\ d.start <= t.now } }
             /\ \A e \in Lookahead(t) :
                   /\ e.id \notin DOMAIN t.tasks
                   /\ RowCount(e) = 0
                   /\ Invocations(handlerCalls, <<e.id, e.start>>) = 0
             /\ t.pc = "returned" =>
                   t.result.dueEvents =
                      Cardinality({ e \in t.listed :
                                      /\ e.status # "cancelled"
                                      /\ e.start <= t.now })
    /\ \A i \in 1..Len(taskRuns) :
          \E e \in calendar :
              /\ e.id = taskRuns[i].calendar_event_id
              /\ toEpochSeconds(e.start) = taskRuns[i].scheduled_start
              /\ e.start <= clock

\* a tick has created and run both of its due events and returned, while
\* the event of the lookahead part of its window has no run
C25_Witness ==
    \E p \in Procs :
        /\ tick[p].pc = "returned"
        /\ Lookahead(tick[p]) # {}
        /\ tick[p].result.dueEvents = 2
        /\ tick[p].result.createdRuns = 2
        /\ Len(taskRuns) = 2
        /\ \A id \in TaskIds(p) : tick[p].tasks[id].executed
\* the due events of a tick for which createRunIfMissing returned a record
RunReturned(t) == { id \in DOMAIN t.tasks : t.tasks[id].run # NoRun }

\* C26: createdRuns is the number of due events of the tick for which
\* createRunIfMissing returned a record, whether or not the running update,
\* the handler or the terminal update raised afterwards
C26_CreatedCountsReturnedRuns ==
    \A p \in Procs :
        LET t == tick[p]
        IN /\ \A id \in RunReturned(t) :
                 \E i \in 1..Len(taskRuns) :
                     /\ taskRuns[i].id = t.tasks[id].run.id
                     /\ taskRuns[i].calendar_event_id = id
           /\ \A id \in DOMAIN t.tasks :
                 t.tasks[id].outcome \in
                    {"runningRaised", "failedRaised", "completedRaised",
                     "failed", "completed"} => id \in RunReturned(t)
           /\ t.pc = "returned" =>
                 t.result.createdRuns = Cardinality(RunReturned(t))

\* a tick has returned createdRuns 2: the running update of one run raised
\* and the handler of the other raised
C26_Witness ==
    \E p \in Procs :
        /\ tick[p].pc = "returned"
        /\ tick[p].result.createdRuns = 2
        /\ \E i, j \in TaskIds(p) :
              /\ tick[p].tasks[i].outcome = "runningRaised"
              /\ tick[p].tasks[j].outcome = "failed"
\* the ids of the rows the Run Store held when the call was made
IdsBefore == { store.before[i].id : i \in 1..Len(store.before) }

\* C27: updateStatus with an id that resolves to no record returns absent,
\* raises no error, and leaves every record in the Run Store unchanged.
C27_UnknownIdReturnsAbsent ==
    (/\ store.op = "updateStatus"
     /\ store.pc # "called"
     /\ store.id \notin IdsBefore)
    => /\ store.pc = "returned"
       /\ store.returned = NoRun
       /\ taskRuns = store.before

\* an updateStatus call on a store that holds rows, none of which has the id,
\* has returned
C27_Witness ==
    /\ store.op = "updateStatus"
    /\ store.pc = "returned"
    /\ Len(store.before) > 0
    /\ store.id \notin IdsBefore
    /\ \E i \in 1..Len(store.before) : store.before[i].status # store.status

\* the stored runs whose scheduledStart lies in [start, end]
RunsWithin(rows, start, end) ==
    { mapRow(rows[i]) : i \in
        { j \in 1..Len(rows) :
            /\ mapRow(rows[j]).scheduledStart >= start
            /\ mapRow(rows[j]).scheduledStart <= end } }

RecordExists(p) ==
    \E r \in dailySummaries :
        r.date_key = getDayWindow(timezone, tick[p].now).dateKey

\* the step in which slot p gets the answer of getForDate
LooksUpRecord(p) ==
    /\ tick[p].pc = "summaryCheck"
    /\ tick'[p] # tick[p]

\* C29: when a DailySummaryRecord already exists for now's dateKey,
\* maybeSendSummary returns {sent: false, reason: "already-sent"} whatever
\* the local hour and takes no further action: no run listing, no email, no
\* change of the Digest Store (a getForDate that raises ends the call too).
C29_AlreadySentNoFurtherAction ==
    [][\A p \in Procs :
         (LooksUpRecord(p) /\ RecordExists(p)) =>
            /\ tick'[p].pc = "returned"
            /\ faults' = faults =>
                  tick'[p].result.summary =
                     [sent |-> FALSE, reason |-> "already-sent",
                      messageId |-> 0]
            /\ emails' = emails
            /\ dailySummaries' = dailySummaries
            /\ taskRuns' = taskRuns]_vars

\* two invocations before the summary hour of a day whose digest is
\* recorded both returned already-sent, and nothing was sent or written
C29_Witness ==
    /\ Len(responses) = 2
    /\ \A i \in 1..2 :
          /\ SummaryOf(i).reason = "already-sent"
          /\ ResponseHour(i) < summaryHourUtc
    /\ Len(emails) = 1
    /\ dailySummaries = DigestStore(emails)

\* C30: when no record exists for now's dateKey, maybeSendSummary returns
\* {sent: false, reason: "too-early"} if and only if the local hour of now is
\* strictly less than the configured summary hour, and then no email is
\* sent and no DailySummaryRecord is written.
C30_TooEarlyIffBeforeSummaryHour ==
    [][\A p \in Procs :
         (LooksUpRecord(p) /\ ~RecordExists(p) /\ faults' = faults) =>
            LET early == LocalHour(timezone, tick[p].now) < summaryHourUtc
                tooEarly == /\ tick'[p].pc = "returned"
                            /\ tick'[p].result.summary.reason = "too-early"
                            /\ ~tick'[p].result.summary.sent
            IN /\ tooEarly <=> early
               /\ early => /\ emails' = emails
                           /\ dailySummaries' = dailySummaries]_vars

\* the step in which slot p, its email delivered, gets the answer of markSent
MarksSent(p) ==
    /\ tick[p].pc = "summaryMark"
    /\ tick'[p] # tick[p]

\* the email of the dateKey of slot p that carries the message id the
\* Notification Gateway gave to slot p
Delivered(p) ==
    \E n \in 1..Len(emails) :
        /\ emails[n].messageId = tick[p].messageId
        /\ emails[n].dateKey = getDayWindow(timezone, tick[p].now).dateKey

\* the rows of the Digest Store for the dateKey of slot p after the step
RecordsAfter(p) ==
    { r \in dailySummaries' :
        r.date_key = getDayWindow(timezone, tick[p].now).dateKey }

\* C31 as stated: when maybeSendSummary has sent, it returns
\* {sent: true, messageId} with the id of the Notification Gateway, and the
\* Digest Store then holds a record of the dateKey with that id and
\* sentAt = now
C31_SentRecordedAtNow ==
    [][\A p \in Procs :
         MarksSent(p) =>
            /\ Delivered(p)
            /\ tick'[p].pc = "returned"
            /\ tick'[p].result.summary =
                  [sent |-> TRUE, reason |-> "undefined",
                   messageId |-> tick[p].messageId]
            /\ RecordsAfter(p) # {}
            /\ \A r \in RecordsAfter(p) :
                  /\ r.message_id = tick[p].messageId
                  /\ r.sent_at * MsPerSecond = tick[p].now]_vars

\* C31, amended: when the email is delivered and markSent returns,
\* maybeSendSummary returns {sent: true, messageId} with the id of the
\* Notification Gateway and the Digest Store holds one record of the dateKey
\* with that id and sent_at = now in whole seconds; when markSent raises,
\* the call ends with that error and the Digest Store is as it was
C31_SentRecordedAtSecond ==
    [][\A p \in Procs :
         MarksSent(p) =>
            /\ Delivered(p)
            /\ tick'[p].pc = "returned"
            /\ IF faults' = faults
               THEN /\ tick'[p].result.summary =
                         [sent |-> TRUE, reason |-> "undefined",
                          messageId |-> tick[p].messageId]
                    /\ RecordsAfter(p) =
                         { [date_key |->
                              getDayWindow(timezone, tick[p].now).dateKey,
                            sent_at |-> toEpochSeconds(tick[p].now),
                            message_id |-> tick[p].messageId] }
               ELSE /\ tick'[p].result.summary =
                         SummaryCaught("markSent raised")
                    /\ dailySummaries' = dailySummaries]_vars

\* an invocation at an instant within a second has sent the digest and the
\* record of its day carries the message id and the whole second
C31_Witness ==
    /\ Len(responses) >= 1
    /\ SummaryOf(1).sent
    /\ SummaryOf(1).messageId = 1
    /\ responses[1].now % MsPerSecond # 0
    /\ dailySummaries =
          { [date_key |-> ResponseKey(1),
             sent_at |-> responses[1].now \div MsPerSecond,
             message_id |-> 1] }

\* the sections of the digest body: heading, format of a run line, and the
\* statuses of the runs listed under it
Sections ==
    { [heading |-> "Completed tasks:", kind |-> "completed",
       statuses |-> {"completed"}],
      [heading |-> "Pending / running:", kind |-> "pending",
       statuses |-> {"pending", "running", "skipped"}],
      [heading |-> "Failures:", kind |-> "failed",
       statuses |-> {"failed"}] }

\* the lines of the body under a heading, up to the next blank line
SectionOf(body, heading) ==
    LET h == CHOOSE i \in 1..Len(body) :
                 body[i].kind = "heading" /\ body[i].text = heading
        blanks == { j \in (h + 1)..Len(body) : body[j].kind = "blank" }
        stop == IF blanks = {} THEN Len(body) + 1
                ELSE CHOOSE j \in blanks : \A m \in blanks : j <= m
    IN SubSeq(body, h + 1, stop - 1)

\* run k of the listing has its line in the section: the lines of a section
\* follow the order of the listing
AppearsIn(runs, body, k, sec) ==
    LET lines == SectionOf(body, sec.heading)
        rank == Cardinality({ m \in 1..k : runs[m].status \in sec.statuses })
    IN /\ runs[k].status \in sec.statuses
       /\ rank <= Len(lines)
       /\ lines[rank] = Line(sec.kind, "-", runs[k])

\* C32: the digest body partitions the listed runs: every run returned for
\* [start, end] appears in exactly one section, completed runs under
\* Completed tasks, failed runs under Failures, pending, running and skipped
\* runs under Pending / running; a section with no runs shows exactly one
\* placeholder line.
C32_BodyPartitionsRuns ==
    store.pc = "composed" =>
       /\ \A sec \in Sections :
             \E i \in 1..Len(store.body) :
                 /\ store.body[i].kind = "heading"
                 /\ store.body[i].text = sec.heading
                 /\ \A j \in 1..Len(store.body) :
                       store.body[j] = store.body[i] => j = i
       /\ \A k \in 1..Len(store.runs) :
             \E sec \in Sections :
                 /\ AppearsIn(store.runs, store.body, k, sec)
                 /\ \A other \in Sections \ {sec} :
                       ~AppearsIn(store.runs, store.body, k, other)
       /\ \A sec \in Sections :
             LET lines == SectionOf(store.body, sec.heading)
                 listed == { k \in 1..Len(store.runs) :
                               store.runs[k].status \in sec.statuses }
             IN IF listed = {}
                THEN /\ Len(lines) = 1
                     /\ lines[1].kind = "placeholder"
                ELSE /\ Len(lines) = Cardinality(listed)
                     /\ \A j \in 1..Len(lines) : lines[j].kind = sec.kind

\* a body composed from a skipped and a failed run: one line under
\* Pending / running, one under Failures, the placeholder under Completed
\* tasks
C32_Witness ==
    /\ store.pc = "composed"
    /\ Len(store.runs) = 2
    /\ { store.runs[k].status : k \in 1..2 } = {"skipped", "failed"}
    /\ Len(store.body) = 10
    /\ SectionOf(store.body, "Completed tasks:")[1].kind = "placeholder"

\* C33: for every instant now and configured timezone, the day window
\* computed for now contains now: start <= now <= end, where
\* end = start + 24 h - 1 ms.
C33_WindowContainsNow ==
    day.pc = "returned" =>
       /\ day.window.end = day.window.start + MsPerDay - 1
       /\ day.window.start <= day.date
       /\ day.date <= day.window.end

\* the rows the Run Store can come to hold in SpecSched
RunRowIds == 1..(2 * (MaxSchedules + 1) + MaxTicks + 1)

\* the events a tick at this instant would fetch as due and not cancelled
DueNow ==
    DueEvents(getActionableEvents(calendar,
                  clock - pollLookbackMinutes * 60 * 1000,
                  clock + pollLookaheadMinutes * 60 * 1000), clock)

\* row i is the run record of an event that is due and not cancelled, its
\* status is neither completed nor failed, and a whole tick is yet to come
AwaitsTick(i) ==
    /\ i \in 1..Len(taskRuns)
    /\ taskRuns[i].status \notin TerminalStatuses
    /\ \E e \in DueNow :
          /\ e.id = taskRuns[i].calendar_event_id
          /\ toEpochSeconds(e.start) = taskRuns[i].scheduled_start
    /\ ~Active(1)
    /\ ticksStarted < MaxTicks

C35_NoSecondDelivery ==
    [][\A p \in Procs :
         (tick[p].pc = "summarySend" /\ Len(emails') > Len(emails)) =>
            \A n \in 1..Len(emails) :
                emails[n].dateKey # emails'[Len(emails')].dateKey]_vars

\* row i goes to status running in this step
BecomesRunning(i) ==
    /\ taskRuns[i].status # "running"
    /\ i \in 1..Len(taskRuns')
    /\ taskRuns'[i].status = "running"

\* C36 as stated: the transition of a run to running changes only its
\* status: the summary stored at creation and the stored error are the same
\* after updateStatus(id, running) as before it
C36_RunningKeepsSummary ==
    [][\A i \in 1..Len(taskRuns) :
         BecomesRunning(i) =>
            taskRuns'[i] = [taskRuns[i] EXCEPT !.status = "running"]]_vars

\* C36, amended: updateStatus(id, running) is given no summary and no
\* error, and the UPDATE writes both columns: the run goes to running with
\* its stored summary and error set to NULL; the key of the run stays
C36_RunningClearsSummary ==
    [][\A i \in 1..Len(taskRuns) :
         BecomesRunning(i) =>
            taskRuns'[i] = [taskRuns[i] EXCEPT !.status = "running",
                                               !.summary = Null,
                                               !.error = Null]]_vars

\* the run of an event with a description is running: the summary taken
\* from the description at creation is no longer stored
C36_Witness ==
    \E i \in 1..Len(taskRuns) : \E e \in calendar :
        /\ taskRuns[i].calendar_event_id = e.id
        /\ e.description # Null
        /\ Trim(e.description) # <<>>
        /\ taskRuns[i].status = "running"
        /\ taskRuns[i].summary = Null

\* C37: dateKey identifies the local calendar day: two instants on the same
\* local calendar day of the configured timezone yield the same dateKey, two
\* instants on different local calendar days yield different dateKeys, the
\* days of a daylight-saving transition included.
C37_DateKeyIsLocalDay ==
    day.pc = "returned" =>
       \A other \in DayInstants :
           (LocalDay(day.tz, other) = LocalDay(day.tz, day.date))
              <=> (getDayWindow(day.tz, other).dateKey = day.window.dateKey)

\* the dateKey of an instant of the local day of a clock change in a zone
\* ahead of UTC: an instant of that local day before the change, on the
\* previous UTC date, and one after it have the same dateKey
C37_Witness ==
    /\ day.pc = "returned"
    /\ day.tz = "Europe/London"
    /\ day.date >= FallBack
    /\ \E other \in DayInstants :
          /\ other < FallBack
          /\ other \div MsPerDay # day.date \div MsPerDay
          /\ LocalDay(day.tz, other) = LocalDay(day.tz, day.date)
          /\ getDayWindow(day.tz, other).dateKey = day.window.dateKey

\* the events the Event Gateway holds with status cancelled
Cancelled == { e \in calendar : e.status = "cancelled" }

\* C38: a tick never creates a run record and never invokes the Task Handler
\* for a fetched event whose status is cancelled, even when its start is at
\* or before now.
C38_CancelledNeverProcessed ==
    \A e \in Cancelled :
        /\ \A i \in 1..Len(taskRuns) : taskRuns[i].calendar_event_id # e.id
        /\ Invocations(handlerCalls, <<e.id, e.start>>) = 0
        /\ \A p \in Procs :
              /\ e \notin tick[p].events
              /\ e.id \notin DOMAIN tick[p].tasks

\* a tick has returned that listed a cancelled event with start before its
\* now and created and executed the run of the other due event
C38_Witness ==
    \E p \in Procs :
        /\ tick[p].pc = "returned"
        /\ \E e \in tick[p].listed :
              e.status = "cancelled" /\ e.start <= tick[p].now
        /\ tick[p].result.createdRuns = 1
        /\ \E key \in DOMAIN handlerCalls : handlerCalls[key] >= 1

\* the running update of the task raised
RunningRaised(task) == task.outcome = "runningRaised"

\* the step invokes the Task Handler for the task of event id in slot p
InvokesHandler(p, id) ==
    /\ id \in TaskIds(p)
    /\ tick[p].tasks[id].pc = "execute"
    /\ id \in DOMAIN tick'[p].tasks
    /\ tick'[p].tasks[id].executed
    /\ ~tick[p].tasks[id].executed

====
